---- MODULE Spec2Model ----
(***************************************************************************)
(* Vulkan matrix multiplication (aten/src/ATen/native/vulkan/ops/Mm.cpp):  *)
(* the eligibility predicates available / usable, the construction of a    *)
(* LinearPackedContext, and the dispatch done by run_addmm_context and     *)
(* run_baddbmm_context.                                                    *)
(*                                                                         *)
(* Four specifications share the definitions:                              *)
(*   SpecAvailable  one evaluation of available(weight, bias, use_batch)   *)
(*   SpecUsable     one evaluation of usable(input, sizes, use_batch)      *)
(*   Spec           the public calls: create_context, run_context,         *)
(*                  run_qcontext, mm, addmm, bmm, baddbmm                  *)
(*   SpecPackBiases one call of pack_biases, one step per statement of its *)
(*                  staged host-to-device copy                             *)
(***************************************************************************)
EXTENDS Integers, Sequences, FiniteSets, TLC

VARIABLES avail, use, api_ok, pc, ctx, built, ctor, run, pk

vars == <<avail, use, api_ok, pc, ctx, built, ctor, run, pk>>

(***************************************************************************)
(* Bounds of the model.                                                    *)
(***************************************************************************)
\* every dimension of an operand is drawn from 0..MaxDim
MaxDim == 2
\* operands have rank 0..MaxRank
MaxRank == 3

\* the largest size of an axis of an operand of a packing call
MaxPackDim == 3

(***************************************************************************)
(* Layout::Parameter and Layout::BatchMatrices: the 0-based axis indices   *)
(* the code uses to read sizes.                                            *)
(***************************************************************************)
Parameter_height == 0
Parameter_width == 1
BatchMatrices_batch == 0
BatchMatrices_height == 1
BatchMatrices_width == 2

(***************************************************************************)
(* Tensors.  An at::Tensor is described by what the code reads of it:      *)
(* sizes, device, scalar type, requires_grad.  A tensor on the Vulkan      *)
(* device also has the vTensor behind it: its memory-layout tag and its    *)
(* quantized flag.                                                         *)
(***************************************************************************)
Devices == {"cpu", "vulkan", "cuda"}

DTypes == {"kFloat", "kQInt8", "kQUInt8"}

QuantizedDTypes == {"kQInt8", "kQUInt8"}

GPUMemoryLayouts ==
    {"TENSOR_WIDTH_PACKED", "TENSOR_HEIGHT_PACKED", "TENSOR_CHANNELS_PACKED"}

Dims == 0 .. MaxDim

PosDims == 1 .. MaxDim

Shapes == UNION {[1 .. r -> Dims] : r \in 0 .. MaxRank}

PosShapes == UNION {[1 .. r -> PosDims] : r \in 0 .. MaxRank}

\* c10::optional<Tensor>() : no bias given
Nullopt == [kind |-> "nullopt"]

\* an optional holding a Tensor for which defined() is false
UndefinedTensor == [kind |-> "undefined"]

\* an argument the callee returned without reading
Unexamined == [kind |-> "unexamined"]

\* the layout tag and quantized flag of the vTensor behind a tensor: only a
\* tensor on the Vulkan device has one, and only one of a quantized scalar type
\* is flagged quantized
VParts(device, dtype) ==
    IF device = "vulkan"
    THEN {[layout |-> l, vq |-> q] :
             l \in GPUMemoryLayouts,
             q \in (IF dtype \in QuantizedDTypes THEN BOOLEAN ELSE {FALSE})}
    ELSE {[layout |-> "none", vq |-> FALSE]}

\* a tensor on the Vulkan device as Tensor::vulkan() makes it
DefaultVParts(device, dtype) ==
    IF device = "vulkan"
    THEN {[layout |-> "TENSOR_CHANNELS_PACKED", vq |-> FALSE]}
    ELSE {[layout |-> "none", vq |-> FALSE]}

\* only a floating-point tensor can require gradients
GradFlags(dtype) == IF dtype = "kFloat" THEN BOOLEAN ELSE {FALSE}

Tensor(s, d, t, g, v) ==
    [kind |-> "tensor", sizes |-> s, device |-> d, dtype |-> t,
     requires_grad |-> g, layout |-> v.layout, vq |-> v.vq]

\* every tensor of the given shapes and devices
TensorsOf(shapes, devices) ==
    UNION { { Tensor(s, d, t, g, v) : g \in GradFlags(t), v \in VParts(d, t) } :
            s \in shapes, d \in devices, t \in DTypes }

\* those whose image, if on the device, is as Tensor::vulkan() makes it
PlainTensorsOf(shapes, devices) ==
    UNION { { Tensor(s, d, t, g, v) :
                 g \in GradFlags(t), v \in DefaultVParts(d, t) } :
            s \in shapes, d \in devices, t \in DTypes }

\* the weights handed to available and to the constructor
Weights == TensorsOf(Shapes, Devices)

\* the biases handed to them: none, an undefined tensor, or a tensor
Biases == PlainTensorsOf(Shapes, Devices)

OptionalBiases == {Nullopt, UndefinedTensor} \cup Biases

\* the inputs handed to usable
UsableInputs == TensorsOf(Shapes, Devices)

\* Tensor::ndimension() / Tensor::dim()
ndimension(t) == Len(t.sizes)

\* Tensor::size(d) for an axis index 0 <= d < ndimension()
size(t, d) == t.sizes[d + 1]

\* api::utils::div_up
div_up(n, d) == (n + d - 1) \div d

\* Tensor::is_quantized(): the Quantized dispatch key, which tensors on the
\* Vulkan device do not carry
is_quantized(t) == t.device # "vulkan" /\ t.dtype \in QuantizedDTypes

(***************************************************************************)
(* available(weight, bias, use_batch).  The result is "true", "false", or  *)
(* "throws" where the code reads size(0) of a bias of rank 0.              *)
(***************************************************************************)
\* bias && bias->defined()
bias_defined_arg(bias) == bias.kind = "tensor"

host_or_device(t) == t.device = "cpu" \/ t.device = "vulkan"

weight_available_with_batch(weight) ==
    /\ 3 = ndimension(weight)
    /\ size(weight, BatchMatrices_batch) > 0
    /\ size(weight, BatchMatrices_height) > 0
    /\ size(weight, BatchMatrices_width) > 0
    /\ host_or_device(weight)
    /\ weight.dtype = "kFloat"
    /\ ~weight.requires_grad

bias_available_with_batch(weight, bias) ==
    /\ ndimension(bias) > 0
    /\ host_or_device(bias)
    /\ bias.dtype = "kFloat"
    /\ IF ndimension(bias) = 3
       THEN /\ \/ size(bias, BatchMatrices_width) = size(weight, BatchMatrices_width)
               \/ size(bias, BatchMatrices_width) = 1
            /\ \/ size(bias, BatchMatrices_batch) = size(weight, BatchMatrices_batch)
               \/ size(bias, BatchMatrices_batch) = 1
       ELSE IF ndimension(bias) = 2
       THEN \/ size(bias, BatchMatrices_height) = size(weight, BatchMatrices_width)
            \/ size(bias, BatchMatrices_height) = 1
       ELSE \/ size(bias, BatchMatrices_batch) = size(weight, BatchMatrices_width)
            \/ size(bias, BatchMatrices_batch) = 1
    /\ ~bias.requires_grad

available_check_with_batch(weight, bias) ==
    IF ~weight_available_with_batch(weight) THEN "false"
    ELSE IF ~bias_defined_arg(bias) THEN "true"
    ELSE IF ndimension(bias) = 0 THEN "throws"
    ELSE IF bias_available_with_batch(weight, bias) THEN "true" ELSE "false"

weight_available(weight) ==
    /\ 2 = ndimension(weight)
    /\ size(weight, Parameter_height) > 0
    /\ size(weight, Parameter_width) > 0
    /\ host_or_device(weight)
    /\ (weight.dtype = "kFloat" \/ weight.dtype = "kQInt8")
    /\ ~weight.requires_grad

bias_available(weight, bias) ==
    IF bias_defined_arg(bias)
    THEN /\ ndimension(bias) > 0
         /\ host_or_device(bias)
         /\ bias.dtype = "kFloat"
         /\ IF ndimension(bias) > 1
            THEN size(bias, Parameter_width) = size(weight, Parameter_width)
            ELSE TRUE
         /\ ~bias.requires_grad
    ELSE TRUE

available(api, weight, bias, use_batch) ==
    IF ~api THEN "false"
    ELSE IF use_batch THEN available_check_with_batch(weight, bias)
    ELSE IF ~weight_available(weight) THEN "false"
    ELSE IF bias_available(weight, bias) THEN "true" ELSE "false"

\* the part of the arguments available reads before it returns: nothing when
\* the Vulkan runtime is missing, the weight alone when the weight is rejected
reads_weight(api) == api

reads_bias(api, weight, use_batch) ==
    /\ api
    /\ IF use_batch THEN weight_available_with_batch(weight)
                    ELSE weight_available(weight)

NoCall == [kind |-> "none"]

AvailableCall(api, weight, bias, use_batch) ==
    [kind |-> "available",
     api |-> api,
     use_batch |-> use_batch,
     weight |-> IF reads_weight(api) THEN weight ELSE Unexamined,
     bias |-> IF reads_bias(api, weight, use_batch) THEN bias ELSE Unexamined,
     result |-> available(api, weight, bias, use_batch)]

(***************************************************************************)
(* SpecAvailable: available applied once to arguments drawn from the       *)
(* bounded sets.                                                           *)
(***************************************************************************)
InitAvailable ==
    /\ avail = NoCall
    /\ use = NoCall
    /\ api_ok = TRUE
    /\ pc = "idle"
    /\ ctx = NoCall
    /\ built = NoCall
    /\ ctor = NoCall
    /\ run = NoCall
    /\ pk = NoCall

EvalAvailable ==
    /\ avail = NoCall
    /\ \E api \in BOOLEAN, use_batch \in BOOLEAN, weight \in Weights :
         IF reads_bias(api, weight, use_batch)
         THEN \E bias \in OptionalBiases :
                 avail' = AvailableCall(api, weight, bias, use_batch)
         ELSE avail' = AvailableCall(api, weight, Nullopt, use_batch)
    /\ UNCHANGED <<pk, use, api_ok, pc, ctx, built, ctor, run>>

NextAvailable == EvalAvailable

SpecAvailable == InitAvailable /\ [][NextAvailable]_vars

(***************************************************************************)
(* usable(input, unpacked_weight_sizes, use_batch).  convert(input) is     *)
(* called first in the unbatched branch and asserts that the tensor is on  *)
(* the Vulkan device: the result is "throws" there.                        *)
(***************************************************************************)
usable_check_with_batch_ignoring_batch_size(input, unpacked_weight_sizes) ==
    /\ 3 = ndimension(input)
    /\ input.device = "vulkan"
    /\ input.dtype = "kFloat"
    /\ size(input, BatchMatrices_width) =
           unpacked_weight_sizes[BatchMatrices_height + 1]
    /\ ~input.requires_grad

usable_check_with_batch(input, unpacked_weight_sizes) ==
    /\ 3 = ndimension(input)
    /\ input.device = "vulkan"
    /\ input.dtype = "kFloat"
    /\ size(input, BatchMatrices_width) =
           unpacked_weight_sizes[BatchMatrices_height + 1]
    /\ size(input, BatchMatrices_batch) =
           unpacked_weight_sizes[BatchMatrices_batch + 1]
    /\ ~input.requires_grad

usable_unbatched(input, unpacked_weight_sizes) ==
    /\ 2 = ndimension(input)
    /\ input.device = "vulkan"
    /\ \/ input.dtype = "kFloat"
       \/ /\ input.vq
          /\ (input.dtype = "kQUInt8" \/ input.dtype = "kQInt8")
    /\ size(input, Parameter_width) = unpacked_weight_sizes[Parameter_height + 1]
    /\ ~input.requires_grad

usable(input, unpacked_weight_sizes, use_batch) ==
    IF use_batch
    THEN IF usable_check_with_batch(input, unpacked_weight_sizes)
         THEN "true" ELSE "false"
    ELSE IF input.device # "vulkan" THEN "throws"
    ELSE IF usable_unbatched(input, unpacked_weight_sizes)
         THEN "true" ELSE "false"

\* the weight sizes a context can record: available admits only rank 2
\* (rank 3 with use_batch) and strictly positive sizes
RecordedWeightSizes(use_batch) ==
    [1 .. (IF use_batch THEN 3 ELSE 2) -> PosDims]

(***************************************************************************)
(* SpecUsable: usable applied once to arguments drawn from the bounded     *)
(* sets.                                                                   *)
(***************************************************************************)
EvalUsable ==
    /\ use = NoCall
    /\ \E use_batch \in BOOLEAN, input \in UsableInputs :
         \E sizes \in RecordedWeightSizes(use_batch) :
            use' = [kind |-> "usable", input |-> input,
                    unpacked_weight_sizes |-> sizes, use_batch |-> use_batch,
                    result |-> usable(input, sizes, use_batch)]
    /\ UNCHANGED <<pk, avail, api_ok, pc, ctx, built, ctor, run>>

NextUsable == EvalUsable

SpecUsable == InitAvailable /\ [][NextUsable]_vars

(***************************************************************************)
(* vTensors and the conversions the code calls.                            *)
(***************************************************************************)
\* vTensor{context, sizes, dtype}: a fresh image carries the default layout tag
\* and is not flagged quantized until set_is_quantized()
new_vTensor(sizes, dtype) ==
    [sizes |-> sizes, dtype |-> dtype, layout |-> "TENSOR_CHANNELS_PACKED",
     vq |-> FALSE]

\* convert(tensor): the vTensor behind a tensor on the Vulkan device
convert(t) ==
    [sizes |-> t.sizes, dtype |-> t.dtype, layout |-> t.layout, vq |-> t.vq]

\* convert(v_output): the at::Tensor wrapping a vTensor
convert_to_tensor(v) ==
    [kind |-> "tensor", sizes |-> v.sizes, device |-> "vulkan",
     dtype |-> v.dtype, requires_grad |-> FALSE, layout |-> v.layout,
     vq |-> v.vq]

\* Tensor::vulkan(): a copy on the Vulkan device, in a fresh image
vulkan(t) ==
    [t EXCEPT !.device = "vulkan", !.layout = "TENSOR_CHANNELS_PACKED",
              !.vq = FALSE]

\* packing::convert_image_channels_packed_to_width_packed
convert_image_channels_packed_to_width_packed(v) ==
    [new_vTensor(v.sizes, v.dtype) EXCEPT !.layout = "TENSOR_WIDTH_PACKED"]

\* packing::convert_image_channels_packed_to_height_packed
convert_image_channels_packed_to_height_packed(v) ==
    [new_vTensor(v.sizes, v.dtype) EXCEPT !.layout = "TENSOR_HEIGHT_PACKED"]

NoVTensor == [sizes |-> <<>>, dtype |-> "none", layout |-> "none", vq |-> FALSE]

(***************************************************************************)
(* Packing.  Each function yields [error, v]: the check that raised (or    *)
(* "none") and the packed vTensor.                                         *)
(***************************************************************************)
Packed(v) == [error |-> "none", v |-> v]

PackError(site) == [error |-> site, v |-> NoVTensor]

pack_inputs_using_height_packing(input_arg) ==
    IF is_quantized(input_arg) THEN PackError("assert_input_not_quantized")
    ELSE IF ndimension(input_arg) # 2 THEN PackError("assert_input_2d")
    ELSE LET input == IF input_arg.device = "cpu" THEN vulkan(input_arg)
                      ELSE input_arg
         IN  IF input.device # "vulkan" THEN PackError("check_input_is_vulkan")
             ELSE LET v == convert(input)
                      v_input ==
                          IF v.layout = "TENSOR_CHANNELS_PACKED"
                          THEN convert_image_channels_packed_to_width_packed(v)
                          ELSE v
                  IN  IF v_input.layout # "TENSOR_WIDTH_PACKED"
                      THEN PackError("check_input_width_packed")
                      ELSE Packed(v_input)

pack_weights_using_height_packing(weight_arg) ==
    IF is_quantized(weight_arg) THEN PackError("assert_weight_not_quantized")
    ELSE IF ndimension(weight_arg) # 2 THEN PackError("assert_weight_2d")
    ELSE LET weight == IF weight_arg.device = "cpu" THEN vulkan(weight_arg)
                       ELSE weight_arg
         IN  IF weight.device # "vulkan" THEN PackError("check_weight_is_vulkan")
             ELSE LET v == convert(weight)
                      v_weight ==
                          IF v.layout = "TENSOR_CHANNELS_PACKED"
                          THEN convert_image_channels_packed_to_height_packed(v)
                          ELSE v
                  IN  IF v_weight.layout # "TENSOR_HEIGHT_PACKED"
                      THEN PackError("check_weight_height_packed")
                      ELSE Packed(v_weight)

\* the sizes of the tiled image of a (batch of) src_kh x src_kw matrices
dst_vtensor_sizes(src_kb_sz, src_kh_sz, src_kw_sz) ==
    <<src_kb_sz, 4, div_up(src_kh_sz, 2), div_up(src_kw_sz, 2)>>

\* host_readable: whether stage_pack_weights can read the weight's data from
\* host memory; it always can for a weight on the cpu
pack_weights(weight_arg, use_batch, host_readable) ==
    IF ~is_quantized(weight_arg) /\ ~use_batch
    THEN pack_weights_using_height_packing(weight_arg)
    ELSE LET quantized == weight_arg.dtype \in QuantizedDTypes
             w_sizes == weight_arg.sizes
         IN  IF use_batch /\ Len(w_sizes) # 3
             THEN PackError("check_weight_3d")
             ELSE LET src_kb_sz == IF use_batch
                                   THEN w_sizes[BatchMatrices_batch + 1] ELSE 1
                      src_kw_sz == IF use_batch
                                   THEN w_sizes[BatchMatrices_width + 1]
                                   ELSE w_sizes[Parameter_width + 1]
                      src_kh_sz == IF use_batch
                                   THEN w_sizes[BatchMatrices_height + 1]
                                   ELSE w_sizes[Parameter_height + 1]
                      v_weight ==
                          [new_vTensor(dst_vtensor_sizes(src_kb_sz, src_kh_sz,
                                                         src_kw_sz),
                                       weight_arg.dtype)
                             EXCEPT !.vq = quantized]
                  IN  IF ~host_readable THEN PackError("stage_pack_weights")
                      ELSE Packed(v_weight)

\* the source extents pack_biases reads off a bias tensor in batched mode
bias_src_sizes(b_sizes) ==
    IF Len(b_sizes) = 3
    THEN [kb |-> b_sizes[BatchMatrices_batch + 1],
          kw |-> b_sizes[BatchMatrices_width + 1],
          kh |-> b_sizes[BatchMatrices_height + 1]]
    ELSE IF Len(b_sizes) = 2
    THEN [kb |-> 1,
          kw |-> b_sizes[BatchMatrices_height + 1],
          kh |-> b_sizes[BatchMatrices_batch + 1]]
    ELSE [kb |-> 1, kw |-> b_sizes[BatchMatrices_batch + 1], kh |-> 1]

pack_biases(weight_arg, bias_arg, use_batch) ==
    IF bias_arg.kind = "tensor" /\ bias_arg.device = "vulkan"
    THEN Packed(convert(bias_arg))
    ELSE IF bias_arg.kind = "undefined" THEN PackError("bias_undefined")
    ELSE IF bias_arg.kind = "tensor"
    THEN IF use_batch
         THEN LET src == bias_src_sizes(bias_arg.sizes)
              IN  Packed(new_vTensor(dst_vtensor_sizes(src.kb, src.kh, src.kw),
                                     bias_arg.dtype))
         ELSE IF bias_arg.dtype = "kFloat"
         THEN Packed(convert(vulkan(bias_arg)))
         ELSE Packed(new_vTensor(dst_vtensor_sizes(0, 0, 0), bias_arg.dtype))
    ELSE Packed(new_vTensor(<<1>>, weight_arg.dtype))

(***************************************************************************)
(* LinearPackedContext::LinearPackedContext(weight, bias, use_batch).      *)
(* The result records the outcome of the availability check, the packing   *)
(* calls made, the check that raised ("none" when the context was built)   *)
(* and packed_, the entries of the context.                                *)
(***************************************************************************)
\* TORCH_CHECK(available(weight, bias, use_batch), ...)
check_available_skipped(api, weight, bias, use_batch) == TRUE

check_available(api, weight, bias, use_batch) ==
    available(api, weight, bias, use_batch) = "true"

\* the entries the constructor places in packed_
packed_entries(v_weight, v_bias, weight, bias) ==
    <<v_weight, v_bias, weight.sizes, bias_defined_arg(bias)>>

LinearPackedContext(api, weight, bias, use_batch, host_readable) ==
    IF ~check_available(api, weight, bias, use_batch)
    THEN [error |-> IF available(api, weight, bias, use_batch) = "throws"
                    THEN "size_of_rank_0" ELSE "not_available",
          packs |-> <<>>, packed_ |-> <<>>]
    ELSE LET w == pack_weights(weight, use_batch, host_readable)
         IN  IF w.error # "none"
             THEN [error |-> w.error, packs |-> <<"pack_weights">>,
                   packed_ |-> <<>>]
             ELSE LET b == pack_biases(weight, bias, use_batch)
                  IN  IF b.error # "none"
                      THEN [error |-> b.error,
                            packs |-> <<"pack_weights", "pack_biases">>,
                            packed_ |-> <<>>]
                      ELSE [error |-> "none",
                            packs |-> <<"pack_weights", "pack_biases">>,
                            packed_ |-> packed_entries(w.v, b.v, weight, bias)]

\* LinearPackedContext::Packed
Packed_Weight == 0
Packed_Bias == 1
Packed_WeightSizes == 2
Packed_BiasDefined == 3

\* linear_context->get_val(i)
get_val(linear_context, i) == linear_context.packed_[i + 1]

(***************************************************************************)
(* Invocation.  A run yields a record of the call: the arguments, what it  *)
(* read from the context, the steps taken in order, the check that raised  *)
(* ("none" when the call returned), the jobs handed to                     *)
(* submit_compute_job, and the tensors produced.                           *)
(***************************************************************************)
\* c10::multiply_integers over the elements first .. last of a size list
RECURSIVE multiply_integers(_, _, _)
multiply_integers(sizes, first, last) ==
    IF first > last THEN 1
    ELSE sizes[first] * multiply_integers(sizes, first + 1, last)

\* the sizes reshape_to_2d gives an input of rank >= 2
reshape_to_2d_over_all_axes(input_sizes) ==
    <<multiply_integers(input_sizes, 1, Len(input_sizes)),
      input_sizes[Len(input_sizes)]>>

reshape_to_2d(input_sizes) ==
    <<multiply_integers(input_sizes, 1, Len(input_sizes) - 1),
      input_sizes[Len(input_sizes)]>>

\* TORCH_CHECK(usable(input, unpacked_weight_sizes, use_batch), ...)
check_usable_skipped(input, unpacked_weight_sizes, use_batch) == TRUE

check_usable(input, unpacked_weight_sizes, use_batch) ==
    usable(input, unpacked_weight_sizes, use_batch) = "true"

\* the kernel run_addmm_context selects
addmm_shader_ignoring_bias(bias_defined, quantized, dtype) ==
    IF quantized
    THEN IF dtype = "kQInt8" THEN "quantized_mm_qint8"
                             ELSE "quantized_mm_quint8"
    ELSE "mm"

addmm_shader(bias_defined, quantized, dtype) ==
    IF bias_defined
    THEN IF quantized
         THEN IF dtype = "kQInt8" THEN "quantized_addmm_qint8"
                                  ELSE "quantized_addmm_quint8"
         ELSE "addmm"
    ELSE IF quantized
         THEN IF dtype = "kQInt8" THEN "quantized_mm_qint8"
                                  ELSE "quantized_mm_quint8"
         ELSE "mm"

\* the kernel run_baddbmm_context selects
baddbmm_shader(bias_defined) == IF bias_defined THEN "baddbmm" ELSE "bmm"

\* the images bound as shader arguments, in order
shader_arguments(bias_defined) ==
    IF bias_defined THEN <<"v_output", "v_input", "packed_v_weight",
                           "packed_v_bias">>
    ELSE <<"v_output", "v_input", "packed_v_weight">>

\* context->submit_compute_job(shader, ..., arguments, params): one job added
\* to the jobs of the call
submit_compute_job_twice(jobs, shader, global_size, arguments, block) ==
    jobs \o <<[shader |-> shader, global_size |-> global_size,
               arguments |-> arguments, block |-> block],
              [shader |-> shader, global_size |-> global_size,
               arguments |-> arguments, block |-> block]>>

submit_compute_job(jobs, shader, global_size, arguments, block) ==
    Append(jobs, [shader |-> shader, global_size |-> global_size,
                  arguments |-> arguments, block |-> block])

\* the parameter block of run_addmm_context; extents are represented by the
\* sizes of the tensor they are taken from
addmm_block(bias_defined, quantized, v_output, v_input, packed_v_weight, packed_v_bias, alpha, beta) ==
    IF bias_defined
    THEN IF quantized
         THEN [size |-> v_output.sizes,
               K |-> div_up(v_input.sizes[Parameter_width + 1], 2),
               um1_size |-> v_input.sizes,
               um2_size |-> packed_v_weight.sizes,
               ut_size |-> packed_v_bias.sizes,
               multiplier |-> <<alpha, beta>>,
               out_scale |-> "output_scale",
               out_zero_point |-> "output_zero_point"]
         ELSE [shader_extents |-> v_output.sizes,
               tensor_row_size |-> v_input.sizes[Parameter_width + 1],
               bias_size |-> packed_v_bias.sizes,
               multiplier |-> <<alpha, beta>>]
    ELSE IF quantized
         THEN [size |-> v_output.sizes,
               K |-> div_up(v_input.sizes[Parameter_width + 1], 2),
               um1_size |-> v_input.sizes,
               um2_size |-> packed_v_weight.sizes,
               out_scale |-> "output_scale",
               out_zero_point |-> "output_zero_point"]
         ELSE [shader_extents |-> v_output.sizes,
               tensor_row_size |-> v_input.sizes[Parameter_width + 1]]

\* the parameter block of run_baddbmm_context
baddbmm_block(bias_defined, v_output, v_input, packed_v_bias, alpha, beta) ==
    IF bias_defined
    THEN [size |-> v_output.sizes,
          k |-> div_up(v_input.sizes[BatchMatrices_width + 1], 2),
          bias_size |-> packed_v_bias.sizes,
          multiplier |-> <<alpha, beta>>]
    ELSE [size |-> v_output.sizes,
          k |-> div_up(v_input.sizes[BatchMatrices_width + 1], 2)]

\* the shape the result is given: the leading axes of the caller's input and the
\* last axis of the 2-D (3-D) output
restored_shape(input_sizes, output_sizes) ==
    SubSeq(input_sizes, 1, Len(input_sizes) - 1)
        \o <<output_sizes[Len(output_sizes)]>>

NoTensor == [kind |-> "none"]

\* a run record before the first step; recorded_weight_sizes and
\* recorded_bias_defined are the entries of the context the call was handed
RunRecord(op, use_batch, input_arg, quantized, linear_context) ==
    [kind |-> "run", op |-> op, use_batch |-> use_batch,
     input_arg |-> input_arg, quantized |-> quantized,
     recorded_weight_sizes |-> get_val(linear_context, Packed_WeightSizes),
     recorded_bias_defined |-> get_val(linear_context, Packed_BiasDefined),
     unpacked_weight_sizes |-> <<>>, bias_defined |-> FALSE,
     steps |-> <<>>, error |-> "none", jobs |-> <<>>,
     input |-> NoTensor, v_input |-> NoVTensor, v_output |-> NoVTensor,
     result |-> NoTensor]

Raise(r, steps, site) == [r EXCEPT !.steps = steps, !.error = site]

run_addmm_context(op, input_arg, alpha, beta, linear_context, quantized) ==
    LET r0 == RunRecord(op, FALSE, input_arg, quantized, linear_context)
        s1 == IF ndimension(input_arg) = 2 THEN <<>> ELSE <<"reshape_to_2d">>
    IN
    IF ndimension(input_arg) < 2 THEN Raise(r0, s1, "reshape_to_2d")
    ELSE
    LET input_arg_2d ==
            IF ndimension(input_arg) = 2 THEN input_arg
            ELSE [input_arg EXCEPT !.sizes = reshape_to_2d(input_arg.sizes)]
        input == IF input_arg_2d.device = "vulkan" THEN input_arg_2d
                 ELSE vulkan(input_arg_2d)
        s2 == IF input_arg_2d.device = "vulkan" THEN s1
              ELSE Append(s1, "vulkan")
        packed_input == pack_inputs_using_height_packing(input)
        s3 == Append(s2, "pack_inputs_using_height_packing")
        r3 == [r0 EXCEPT !.input = input]
    IN
    IF packed_input.error # "none" THEN Raise(r3, s3, packed_input.error)
    ELSE
    LET v_input == packed_input.v
        packed_v_weight == get_val(linear_context, Packed_Weight)
        packed_v_bias == get_val(linear_context, Packed_Bias)
        unpacked_weight_sizes == get_val(linear_context, Packed_WeightSizes)
        bias_defined == get_val(linear_context, Packed_BiasDefined)
        r4 == [r3 EXCEPT !.v_input = v_input,
                         !.unpacked_weight_sizes = unpacked_weight_sizes,
                         !.bias_defined = bias_defined]
        s4 == Append(s3, "usable")
        s5 == Append(s4, "check_quantized")
        s6 == Append(s5, "check_weight_height_packed")
    IN
    IF ~check_usable(input, unpacked_weight_sizes, FALSE)
    THEN Raise(r4, s4, "usable")
    ELSE IF ~(~quantized \/ (packed_v_weight.vq /\ v_input.vq))
    THEN Raise(r4, s5, "check_quantized")
    ELSE IF ~(quantized \/ packed_v_weight.layout = "TENSOR_HEIGHT_PACKED")
    THEN Raise(r4, s6, "check_weight_height_packed")
    ELSE
    LET v_output ==
            [new_vTensor(<<input_arg_2d.sizes[Parameter_height + 1],
                           unpacked_weight_sizes[Parameter_width + 1]>>,
                         input_arg.dtype)
               EXCEPT !.vq = quantized]
        shader == addmm_shader(bias_defined, quantized, input_arg.dtype)
        block == addmm_block(bias_defined, quantized, v_output, v_input,
                             packed_v_weight, packed_v_bias, alpha, beta)
        global_size ==
            <<div_up(v_output.sizes[Parameter_width + 1], 4),
              div_up(v_output.sizes[Parameter_height + 1], 4), 1>>
        jobs == submit_compute_job(<<>>, shader, global_size,
                                   shader_arguments(bias_defined), block)
        s7 == Append(s6, "submit_compute_job")
        output == convert_to_tensor(v_output)
    IN
    [r4 EXCEPT !.v_output = v_output,
               !.jobs = jobs,
               !.steps = IF ndimension(input_arg) = 2 THEN s7
                         ELSE Append(s7, "reshape"),
               !.result =
                   IF ndimension(input_arg) = 2 THEN output
                   ELSE [output EXCEPT !.sizes =
                            restored_shape(input_arg.sizes, output.sizes)]]

run_baddbmm_context(op, input_arg, alpha, beta, linear_context) ==
    LET r0 == RunRecord(op, TRUE, input_arg, FALSE, linear_context)
        s1 == <<"check_input_3d">>
    IN
    IF ndimension(input_arg) # 3 THEN Raise(r0, s1, "check_input_3d")
    ELSE
    LET input == IF input_arg.device = "vulkan" THEN input_arg
                 ELSE vulkan(input_arg)
        s2 == IF input_arg.device = "vulkan" THEN s1 ELSE Append(s1, "vulkan")
        v_input == convert(input)
        packed_v_weight == get_val(linear_context, Packed_Weight)
        packed_v_bias == get_val(linear_context, Packed_Bias)
        unpacked_weight_sizes == get_val(linear_context, Packed_WeightSizes)
        bias_defined == get_val(linear_context, Packed_BiasDefined)
        r3 == [r0 EXCEPT !.input = input, !.v_input = v_input,
                         !.unpacked_weight_sizes = unpacked_weight_sizes,
                         !.bias_defined = bias_defined]
        s3 == Append(s2, "usable")
    IN
    IF ~check_usable(input, unpacked_weight_sizes, TRUE)
    THEN Raise(r3, s3, "usable")
    ELSE
    LET v_output ==
            new_vTensor(<<v_input.sizes[BatchMatrices_batch + 1],
                          v_input.sizes[BatchMatrices_height + 1],
                          unpacked_weight_sizes[BatchMatrices_width + 1]>>,
                        input_arg.dtype)
        block == baddbmm_block(bias_defined, v_output, v_input, packed_v_bias,
                               alpha, beta)
        global_size ==
            <<div_up(unpacked_weight_sizes[BatchMatrices_width + 1], 2),
              div_up(v_input.sizes[BatchMatrices_height + 1], 2),
              div_up(v_input.sizes[BatchMatrices_batch + 1], 4)>>
        jobs == submit_compute_job(<<>>, baddbmm_shader(bias_defined),
                                   global_size, shader_arguments(bias_defined),
                                   block)
        output == convert_to_tensor(v_output)
    IN
    [r3 EXCEPT !.v_output = v_output,
               !.jobs = jobs,
               !.steps = s3 \o <<"submit_compute_job", "reshape">>,
               !.result = [output EXCEPT !.sizes =
                              restored_shape(input_arg.sizes, output.sizes)]]

(***************************************************************************)
(* Spec: the public calls.  pc is the caller's position: "idle" before a   *)
(* call; "mm", "addmm", "bmm", "baddbmm" inside that call, once its        *)
(* temporary context is built and before its run_*_context; "shared" while *)
(* a context made by create_context is held; "returned" / "raised" when a  *)
(* call has ended.  ctor and run record the constructor call and the       *)
(* invocation of the current public call; built is the context as it was   *)
(* when its constructor returned.                                          *)
(***************************************************************************)
\* the inputs handed to an invocation: on the host or on the device, every
\* axis of positive size
Inputs == TensorsOf(PosShapes, {"cpu", "vulkan"})

\* a bias passed as const Tensor&: an optional that always holds a tensor
TensorBiases == {UndefinedTensor} \cup Biases

HostReadable(weight) == IF weight.device = "cpu" THEN {TRUE} ELSE BOOLEAN

\* the context an invocation leaves behind: it is passed by const reference
\* and only read through get_val
context_after_run_dropping_bias(linear_context) ==
    [linear_context EXCEPT !.packed_[Packed_BiasDefined + 1] = FALSE]

context_after_run(linear_context) == linear_context

Init ==
    /\ avail = NoCall
    /\ use = NoCall
    /\ api_ok \in BOOLEAN
    /\ pc = "idle"
    /\ ctx = NoCall
    /\ built = NoCall
    /\ ctor = NoCall
    /\ run = NoCall
    /\ pk = NoCall

Pristine ==
    /\ pc = "idle"
    /\ ctx = NoCall
    /\ ctor = NoCall
    /\ run = NoCall

\* ctor keeps of the constructor call what the caller can observe of it: the
\* verdict of available, whether a defined bias was passed, the packing calls
\* made and the check that raised
Construct(op, weight, bias, use_batch, host_readable, next_pc) ==
    LET c == LinearPackedContext(api_ok, weight, bias, use_batch, host_readable)
    IN  /\ ctor' = [kind |-> "constructor", op |-> op, use_batch |-> use_batch,
                    available |-> available(api_ok, weight, bias, use_batch),
                    weight_sizes |-> weight.sizes,
                    bias_given |-> bias_defined_arg(bias),
                    error |-> c.error, packs |-> c.packs]
        /\ ctx' = IF c.error = "none"
                  THEN [kind |-> "context", packed_ |-> c.packed_]
                  ELSE NoCall
        /\ built' = ctx'
        /\ pc' = IF c.error = "none" THEN next_pc ELSE "raised"
        /\ run' = NoCall
        /\ UNCHANGED <<pk, avail, use, api_ok>>

\* the constructor applied to a weight and to each bias the call can pass; the
\* bias is drawn only where the constructor reads it
ConstructAny(op, biases, use_batch, next_pc) ==
    \E weight \in Weights :
        \E host_readable \in HostReadable(weight) :
           IF reads_bias(api_ok, weight, use_batch)
           THEN \E bias \in biases :
                   Construct(op, weight, bias, use_batch, host_readable, next_pc)
           ELSE Construct(op, weight, CHOOSE b \in biases : TRUE, use_batch,
                          host_readable, next_pc)

\* create_linear_context(weight, bias)
CreateContext ==
    /\ Pristine
    /\ ConstructAny("create_context", OptionalBiases, FALSE, "shared")

\* mm(mat1, mat2), up to the construction of its context
CallMm ==
    /\ Pristine
    /\ ConstructAny("mm", {Nullopt}, FALSE, "mm")

\* addmm(bias, input, weight, beta, alpha), up to the construction
CallAddmm ==
    /\ Pristine
    /\ ConstructAny("addmm", TensorBiases, FALSE, "addmm")

\* bmm(mat1, mat2), up to the construction
CallBmm ==
    /\ Pristine
    /\ ConstructAny("bmm", {Nullopt}, TRUE, "bmm")

\* baddbmm(bias, input, weight, beta, alpha), up to the construction
CallBaddbmm ==
    /\ Pristine
    /\ ConstructAny("baddbmm", TensorBiases, TRUE, "baddbmm")

EndOfCall(r) == IF r.error = "none" THEN "returned" ELSE "raised"

\* mm / addmm: run_addmm_context on the temporary context, which lives until
\* the call ends
FinishAddmm ==
    /\ pc \in {"mm", "addmm"}
    /\ \E input \in Inputs :
         LET r == IF pc = "mm"
                  THEN run_addmm_context("mm", input, "1.0f", "1.0f", ctx, FALSE)
                  ELSE run_addmm_context("addmm", input, "alpha", "beta", ctx,
                                         FALSE)
         IN  /\ run' = r
             /\ pc' = EndOfCall(r)
    /\ ctx' = context_after_run(ctx)
    /\ ctor' = NoCall
    /\ UNCHANGED <<pk, avail, use, api_ok, built>>

\* bmm / baddbmm: run_baddbmm_context on the temporary context
FinishBaddbmm ==
    /\ pc \in {"bmm", "baddbmm"}
    /\ \E input \in Inputs :
         LET r == IF pc = "bmm"
                  THEN run_baddbmm_context("bmm", input, "1.0f", "1.0f", ctx)
                  ELSE run_baddbmm_context("baddbmm", input, "alpha", "beta",
                                           ctx)
         IN  /\ run' = r
             /\ pc' = EndOfCall(r)
    /\ ctx' = context_after_run(ctx)
    /\ ctor' = NoCall
    /\ UNCHANGED <<pk, avail, use, api_ok, built>>

\* the inputs of the invocations on a shared context: any input for the
\* first, the same tensor again for the later ones (through run_context or
\* run_qcontext)
SharedInputs == IF run.kind = "run" THEN {run.input_arg} ELSE Inputs

\* run_linear_context(input, linear_context)
RunContext ==
    /\ pc = "shared"
    /\ \E input \in SharedInputs :
         run' = run_addmm_context("run_context", input, "1.0f", "1.0f", ctx,
                                  FALSE)
    /\ ctx' = context_after_run(ctx)
    /\ ctor' = NoCall
    /\ UNCHANGED <<pk, avail, use, api_ok, pc, built>>

\* run_qlinear_context(input, output_scale, output_zero_point, linear_context)
RunQContext ==
    /\ pc = "shared"
    /\ \E input \in SharedInputs :
         run' = run_addmm_context("run_qcontext", input, "1.0f", "1.0f", ctx,
                                  TRUE)
    /\ ctx' = context_after_run(ctx)
    /\ ctor' = NoCall
    /\ UNCHANGED <<pk, avail, use, api_ok, pc, built>>

\* the last reference to the shared context is dropped
Release ==
    /\ pc = "shared"
    /\ pc' = "idle"
    /\ ctx' = NoCall
    /\ built' = NoCall
    /\ ctor' = NoCall
    /\ run' = NoCall
    /\ UNCHANGED <<pk, avail, use, api_ok>>

\* the caller takes the result, or the error, of a call that has ended; a
\* temporary context is destroyed
Return ==
    /\ pc \in {"returned", "raised"}
    /\ pc' = "idle"
    /\ ctx' = NoCall
    /\ built' = NoCall
    /\ ctor' = NoCall
    /\ run' = NoCall
    /\ UNCHANGED <<pk, avail, use, api_ok>>

Next ==
    \/ CreateContext
    \/ CallMm
    \/ CallAddmm
    \/ CallBmm
    \/ CallBaddbmm
    \/ FinishAddmm
    \/ FinishBaddbmm
    \/ RunContext
    \/ RunQContext
    \/ Release
    \/ Return

Spec == Init /\ [][Next]_vars

(***************************************************************************)
(* Claims about available.                                                 *)
(***************************************************************************)
HasZeroSize(t) == \E i \in 1 .. Len(t.sizes) : t.sizes[i] = 0

SupportedWeightDTypes(use_batch) ==
    IF use_batch THEN {"kFloat"} ELSE {"kFloat", "kQInt8"}

InvalidOperand(t, dtypes) ==
    \/ t.requires_grad
    \/ ndimension(t) = 0
    \/ t.dtype \notin dtypes
    \/ HasZeroSize(t)

\* C1: available returns false whenever the weight, or a present and defined
\* bias, requires gradients, has rank 0, has an unsupported dtype or has a
\* zero-sized dimension, in the unbatched and in the batched mode.
C1_AvailableRejectsInvalidOperands ==
    avail.kind = "available" =>
        ( ( \/ /\ avail.weight.kind = "tensor"
               /\ InvalidOperand(avail.weight,
                                 SupportedWeightDTypes(avail.use_batch))
            \/ /\ avail.bias.kind = "tensor"
               /\ InvalidOperand(avail.bias, {"kFloat"}) )
          => avail.result = "false" )

\* the width of the weight available has accepted as a weight
WeightWidth(weight, use_batch) ==
    IF use_batch THEN size(weight, BatchMatrices_width)
                 ELSE size(weight, Parameter_width)

\* C2: a 1-D bias of shape (W2,) with W2 # W and W2 # 1, W the width of the
\* weight, makes available return false, unbatched and batched.
C2_MismatchedVectorBiasRejected ==
    ( /\ avail.kind = "available"
      /\ avail.bias.kind = "tensor"
      /\ ndimension(avail.bias) = 1
      /\ size(avail.bias, 0) # WeightWidth(avail.weight, avail.use_batch)
      /\ size(avail.bias, 0) # 1 )
    => avail.result = "false"

\* the last axis of a tensor of rank >= 1
LastSize(t) == t.sizes[Len(t.sizes)]

BroadcastableTo(n, m) == n = m \/ n = 1

\* C3: for a valid weight and a float, host-or-device, no-gradient bias of rank
\* >= 2, available accepts the bias if and only if the bias size on the width
\* axis equals the weight's width or is 1, and, for a rank-3 bias in batched
\* mode, its batch size equals the weight's batch size or is 1; the height axis
\* is not checked.
C3_MatrixBiasAcceptedIffBroadcastable ==
    ( /\ avail.kind = "available"
      /\ avail.bias.kind = "tensor"
      /\ ndimension(avail.bias) >= 2
      /\ avail.bias.dtype = "kFloat"
      /\ host_or_device(avail.bias)
      /\ ~avail.bias.requires_grad )
    => ( avail.result = "true" <=>
           /\ BroadcastableTo(LastSize(avail.bias),
                              WeightWidth(avail.weight, avail.use_batch))
           /\ (avail.use_batch /\ ndimension(avail.bias) = 3)
                => BroadcastableTo(size(avail.bias, BatchMatrices_batch),
                                   size(avail.weight, BatchMatrices_batch)) )

(***************************************************************************)
(* Claims about usable.                                                    *)
(***************************************************************************)
\* C4: usable returns true if and only if the input has rank 2 (3 when
\* batched), is on the device, is float (or, unbatched only, a quantized tensor
\* of kind qint8 or quint8), does not require gradients, its last axis equals
\* the recorded weight's height and, when batched, its batch size equals the
\* recorded weight's batch size.
C4_UsableIff ==
    use.kind = "usable" =>
        LET input == use.input
            sizes == use.unpacked_weight_sizes
            batched == use.use_batch
            weight_height == IF batched THEN sizes[2] ELSE sizes[1]
        IN  use.result = "true" <=>
              /\ ndimension(input) = (IF batched THEN 3 ELSE 2)
              /\ input.device = "vulkan"
              /\ \/ input.dtype = "kFloat"
                 \/ ~batched /\ input.vq /\ input.dtype \in {"kQInt8", "kQUInt8"}
              /\ ~input.requires_grad
              /\ LastSize(input) = weight_height
              /\ batched => input.sizes[1] = sizes[1]

\* usable has accepted a batched input
C4_Witness ==
    /\ use.kind = "usable"
    /\ use.result = "true"
    /\ use.use_batch
    /\ use.input.sizes = <<2, 1, 2>>

(***************************************************************************)
(* Claims about construction and invocation.                               *)
(***************************************************************************)
\* C5: constructing a context raises whenever available is false, and then
\* nothing is packed and no context exists; a constructed context holds exactly
\* four entries: packed weight, packed bias, the weight's shape, and whether a
\* defined bias was given.
C5_ConstructionGuardedByAvailable ==
    ctor.kind = "constructor" =>
        /\ ctor.available # "true" =>
               /\ ctor.error # "none"
               /\ ctor.packs = <<>>
               /\ ctx = NoCall
               /\ pc = "raised"
        /\ ctor.error # "none" => ctx = NoCall
        /\ ctx # NoCall =>
               /\ ctor.available = "true"
               /\ ctor.packs = <<"pack_weights", "pack_biases">>
               /\ Len(ctx.packed_) = 4
               /\ ctx.packed_[1].layout \in GPUMemoryLayouts
               /\ ctx.packed_[2].layout \in GPUMemoryLayouts
               /\ ctx.packed_[3] = ctor.weight_sizes
               /\ ctx.packed_[4] = ctor.bias_given

\* a context built with a defined bias
C5_Witness ==
    /\ ctor.kind = "constructor"
    /\ ctx # NoCall
    /\ ctor.bias_given

\* the errors raised by TORCH_CHECK, which are the user-facing ones
TorchCheckSites ==
    {"reshape_to_2d", "check_input_is_vulkan", "check_input_width_packed",
     "usable", "check_quantized", "check_weight_height_packed",
     "check_input_3d"}

\* C6 as stated: every invocation whose caller-supplied input fails usable
\* against the context's recorded weight shape ends in a user-facing error; the
\* input is never moved to the device or reshaped so that the call succeeds.
C6_UnusableCallerInputRaises ==
    ( /\ run.kind = "run"
      /\ usable(run.input_arg, run.recorded_weight_sizes, run.use_batch)
             # "true" )
    => run.error \in TorchCheckSites

\* the tensor the invocation hands to usable: the caller's input collapsed to
\* 2-D (unbatched, rank > 2) and copied to the device if it is not there
InputHandedToUsable(input_arg, use_batch) ==
    LET collapsed ==
            IF use_batch \/ ndimension(input_arg) = 2 THEN input_arg
            ELSE [input_arg EXCEPT !.sizes =
                     <<multiply_integers(input_arg.sizes, 1,
                                         Len(input_arg.sizes) - 1),
                       input_arg.sizes[Len(input_arg.sizes)]>>]
    IN  IF collapsed.device = "vulkan" THEN collapsed
        ELSE [collapsed EXCEPT !.device = "vulkan",
                               !.layout = "TENSOR_CHANNELS_PACKED",
                               !.vq = FALSE]

\* C6 as amended: an invocation ends in a user-facing error whenever its input
\* has rank < 2 (unbatched) or rank # 3 (batched), or fails usable once it is
\* collapsed to 2-D (unbatched) and copied to the device.
C6_UnusableConvertedInputRaises ==
    run.kind = "run" =>
        LET bad_rank == IF run.use_batch THEN ndimension(run.input_arg) # 3
                        ELSE ndimension(run.input_arg) < 2
        IN  ( \/ bad_rank
              \/ usable(InputHandedToUsable(run.input_arg, run.use_batch),
                        run.recorded_weight_sizes, run.use_batch) # "true" )
            => run.error \in TorchCheckSites

\* an invocation that raised because its collapsed, device-resident input
\* failed usable
C6_Witness ==
    /\ run.kind = "run"
    /\ run.error = "usable"
    /\ ndimension(run.input_arg) = 3
    /\ ~run.use_batch
    /\ run.input_arg.device = "cpu"

\* the steps of an invocation that validate
ValidationSteps ==
    {"reshape_to_2d", "pack_inputs_using_height_packing", "usable",
     "check_quantized", "check_weight_height_packed", "check_input_3d"}

Occurrences(seq, x) == Cardinality({i \in 1 .. Len(seq) : seq[i] = x})

\* C7: a public call either returns after exactly one matmul job was submitted
\* or raises after none; the validation steps all precede the submission.
C7_OneJobOrNone ==
    /\ (pc = "raised" /\ run.kind # "run") => ctx = NoCall
    /\ run.kind = "run" =>
          /\ run.error # "none" =>
                /\ run.jobs = <<>>
                /\ Occurrences(run.steps, "submit_compute_job") = 0
          /\ run.error = "none" =>
                /\ Len(run.jobs) = 1
                /\ Occurrences(run.steps, "submit_compute_job") = 1
                /\ "usable" \in {run.steps[i] : i \in 1 .. Len(run.steps)}
                /\ \A i, j \in 1 .. Len(run.steps) :
                      (run.steps[i] = "submit_compute_job" /\ i < j)
                          => run.steps[j] \notin ValidationSteps

\* a call that returned with its job submitted
C7_Witness ==
    /\ pc = "returned"
    /\ run.kind = "run"
    /\ Len(run.jobs) = 1

\* C8: every invocation, returning or raising, leaves the context (packed
\* weight, packed bias, recorded weight shape, bias-defined flag) as its
\* constructor built it, and an invocation on a shared context that repeats
\* the previous one (same entry point, same input) selects the same kernel,
\* builds the same parameter block and gives the same output.
C8_ContextImmutable ==
    [][ run'.kind = "run" =>
           /\ ctx' = ctx
           /\ ctx' = built
           /\ built' = built
           /\ ( /\ run.kind = "run"
                /\ run'.op = run.op
                /\ run'.input_arg = run.input_arg )
              => ( /\ run'.jobs = run.jobs
                   /\ run'.result = run.result
                   /\ run'.error = run.error ) ]_vars

\* a shared context, built with a defined bias, after an invocation that
\* returned
C8_Witness ==
    /\ pc = "shared"
    /\ run.kind = "run"
    /\ run.error = "none"
    /\ Len(run.jobs) = 1
    /\ ctx.kind = "context"
    /\ get_val(ctx, Packed_BiasDefined)

RECURSIVE Product(_)
Product(seq) == IF seq = <<>> THEN 1 ELSE Head(seq) * Product(Tail(seq))

Leading(seq) == SubSeq(seq, 1, Len(seq) - 1)

\* C9: an unbatched invocation with an input (d_1, ..., d_{r-1}, w), r >= 2,
\* on a context recording (w, n) collapses the input to (d_1*...*d_{r-1}, w),
\* computes a 2-D output (d_1*...*d_{r-1}, n) and returns (d_1, ..., d_{r-1}, n);
\* an input of rank < 2 raises; a batched invocation returns
\* (batch, height of input, width of weight).
C9_ShapeRestoration ==
    run.kind = "run" =>
        LET s == run.input_arg.sizes
            r == Len(s)
        IN  IF run.use_batch
            THEN run.error = "none" =>
                    run.result.sizes = <<s[1], s[2], run.recorded_weight_sizes[3]>>
            ELSE /\ r < 2 => run.error # "none"
                 /\ run.error = "none" =>
                       LET d == Product(Leading(s))
                           n == run.recorded_weight_sizes[2]
                       IN  /\ r >= 2
                           /\ s[r] = run.recorded_weight_sizes[1]
                           /\ run.input.sizes = <<d, s[r]>>
                           /\ run.v_output.sizes = <<d, n>>
                           /\ run.result.sizes = Leading(s) \o <<n>>
                           /\ Len(run.result.sizes) = r

\* an unbatched invocation on an input of rank 3 with more than one row in
\* each leading axis, which returned
C9_Witness ==
    /\ run.kind = "run"
    /\ ~run.use_batch
    /\ run.error = "none"
    /\ run.input_arg.sizes = <<2, 2, 2>>
    /\ run.recorded_weight_sizes = <<2, 1>>

\* the kernel the dispatch table gives
DispatchTable(quantized, batched, bias_defined, dtype) ==
    IF batched THEN (IF bias_defined THEN "baddbmm" ELSE "bmm")
    ELSE IF ~quantized THEN (IF bias_defined THEN "addmm" ELSE "mm")
    ELSE IF dtype = "kQInt8"
    THEN (IF bias_defined THEN "quantized_addmm_qint8" ELSE "quantized_mm_qint8")
    ELSE IF dtype = "kQUInt8"
    THEN (IF bias_defined THEN "quantized_addmm_quint8"
                          ELSE "quantized_mm_quint8")
    ELSE "no kernel"

\* C10: the kernel submitted is the one the dispatch table gives for
\* (quantized, batched, bias_defined), the quantized ones in the flavour of the
\* input dtype; the bias image is bound iff bias_defined; nothing is submitted
\* with batched and quantized both true.
C10_KernelPerDispatchTable ==
    run.kind = "run" =>
        \A i \in 1 .. Len(run.jobs) :
            /\ run.jobs[i].shader =
                  DispatchTable(run.quantized, run.use_batch,
                                run.recorded_bias_defined, run.input_arg.dtype)
            /\ ("packed_v_bias" \in
                    {run.jobs[i].arguments[k] :
                        k \in 1 .. Len(run.jobs[i].arguments)})
                  <=> run.recorded_bias_defined
            /\ ~(run.use_batch /\ run.quantized)

\* a quantized invocation with a bias that reached submission
C10_Witness ==
    /\ run.kind = "run"
    /\ Len(run.jobs) = 1
    /\ run.quantized
    /\ run.recorded_bias_defined
    /\ run.input_arg.dtype = "kQInt8"

(***************************************************************************)
(* Claims about the order of validation and packing.                       *)
(***************************************************************************)
StepsOf(r) == {r.steps[i] : i \in 1 .. Len(r.steps)}

\* C11: in every invocation usable is evaluated on the live input before the
\* input is packed: no input-packing step runs for an input that has not yet
\* passed usable.
C11_UsableBeforeInputPacking ==
    run.kind = "run" =>
        \A i \in 1 .. Len(run.steps) :
            run.steps[i] = "pack_inputs_using_height_packing" =>
                /\ \E j \in 1 .. i - 1 : run.steps[j] = "usable"
                /\ run.error # "usable"

(***************************************************************************)
(* SpecPackBiases: pack_biases(weight_arg, bias_arg, use_batch), called by *)
(* the constructor after available has accepted the arguments.  pk is the  *)
(* call in progress: pk.at is the statement reached, pk.staging the        *)
(* contents of the staging buffer by offset (Uninitialized until written), *)
(* pk.mapped whether the MemoryMap of the staging buffer is alive, pk.n    *)
(* the number of loop iterations done, pk.writes the memcpy calls made and *)
(* pk.image the contents handed to the device by pack_staging_to_vtensor.  *)
(* The float at source offset k is represented by k + 1, a zero by 0, and   *)
(* whatever a read past the end of the source yields by OutOfBounds.       *)
(***************************************************************************)
Uninitialized == -1

OutOfBounds == -2

SourceElement(offset) == offset + 1

\* the number of elements of a tensor of the given sizes
numel(sizes) == multiply_integers(sizes, 1, Len(sizes))

\* the trip counts of the loops over src_h and src_w
h_trips(src, use_batch) == IF src.kh = 1 THEN 2 ELSE src.kh

w_trips(src, use_batch) == IF use_batch /\ src.kw = 1 THEN 2 ELSE src.kw

iterations(src, use_batch) ==
    src.kb * h_trips(src, use_batch) * w_trips(src, use_batch)

\* the loop indices of iteration n, counted from 0 in execution order
loop_indices(src, use_batch, n) ==
    LET hr == h_trips(src, use_batch)
        wr == w_trips(src, use_batch)
    IN  [src_b |-> n \div (hr * wr),
         src_h |-> (n \div wr) % hr,
         src_w |-> n % wr]

\* the destination offset of the memcpy of one iteration
dst_offset_row_major(src, i) ==
    i.src_b * 4 * div_up(src.kw, 2) * div_up(src.kh, 2)
        + i.src_h * div_up(src.kw, 2) + i.src_w

dst_offset(src, i) ==
    LET dst_kw_sz == div_up(src.kw, 2)
        dst_kh_sz == div_up(src.kh, 2)
        dst_plane_sz == dst_kw_sz * dst_kh_sz
        dst_matrix_sz == dst_plane_sz * 4
        dst_plane == 2 * (i.src_h % 2) + (i.src_w % 2)
        dst_index == (i.src_h \div 2) * dst_kw_sz + (i.src_w \div 2)
    IN  i.src_b * dst_matrix_sz + dst_plane * dst_plane_sz + dst_index

\* the source offset of the memcpy of one iteration
src_offset_without_broadcast(src, use_batch, i) ==
    i.src_b * src.kw * src.kh + i.src_h * src.kw + i.src_w

src_offset(src, use_batch, i) ==
    LET src_matrix_sz == src.kw * src.kh
    IN  i.src_b * src_matrix_sz
          + (IF src.kh = 1 THEN 0 ELSE i.src_h * src.kw)
          + (IF use_batch /\ src.kw = 1 THEN 0 ELSE i.src_w)

\* the sizes of the operands of the packing calls
PackDims == 0 .. MaxPackDim

PackShapes == UNION {[1 .. r -> PackDims] : r \in 0 .. MaxRank}

\* the biases the constructor passes on: none, an undefined tensor, or a float
\* tensor on the host or the device that does not require gradients
PackableBiases ==
    {Nullopt, UndefinedTensor} \cup
        {b \in PlainTensorsOf(PackShapes, {"cpu", "vulkan"}) :
            b.dtype = "kFloat" /\ ~b.requires_grad}

\* the weight sizes the constructor passes on
PackableWeightSizes(use_batch) ==
    [1 .. (IF use_batch THEN 3 ELSE 2) -> 1 .. MaxPackDim]

\* MemoryMap goes out of scope at the closing brace: the mapping is released
mapping_kept_after_scope(mapped) == mapped

mapping_after_scope(mapped) == FALSE

InitPackBiases == InitAvailable

\* entry of pack_biases up to the construction of the staging buffer, or up to
\* the return / raise of the paths that stage nothing
StartPackBiases ==
    /\ pk = NoCall
    /\ \E use_batch \in BOOLEAN, bias_arg \in PackableBiases :
       \E weight_sizes \in PackableWeightSizes(use_batch) :
       \E weight_dtype \in SupportedWeightDTypes(use_batch) :
         LET weight_arg == Tensor(weight_sizes, "cpu", weight_dtype, FALSE,
                                  [layout |-> "none", vq |-> FALSE])
             p == pack_biases(weight_arg, bias_arg, use_batch)
             staged == /\ p.error = "none"
                       /\ \/ bias_arg.kind = "nullopt"
                          \/ bias_arg.kind = "tensor" /\ bias_arg.device # "vulkan" /\ use_batch
             src == IF staged /\ bias_arg.kind = "tensor"
                    THEN bias_src_sizes(bias_arg.sizes)
                    ELSE [kb |-> 0, kw |-> 0, kh |-> 0]
         IN  /\ check_available(TRUE, weight_arg, bias_arg, use_batch)
             /\ pk' = [kind |-> "pack_biases",
                       at |-> IF p.error # "none" THEN "raised"
                              ELSE IF staged THEN "staging" ELSE "returned",
                       use_batch |-> use_batch,
                       weight_arg |-> weight_arg,
                       bias_arg |-> bias_arg,
                       src |-> src,
                       v_bias |-> p.v,
                       staging |-> IF staged
                                   THEN [k \in 1 .. numel(p.v.sizes) |-> Uninitialized]
                                   ELSE <<>>,
                       mapped |-> FALSE,
                       n |-> 0,
                       writes |-> <<>>,
                       uploaded |-> FALSE,
                       image |-> <<>>]
    /\ UNCHANGED <<avail, use, api_ok, pc, ctx, built, ctor, run>>

\* api::MemoryMap mapping(staging.buffer(), api::MemoryAccessType::WRITE)
MapStaging ==
    /\ pk.kind = "pack_biases"
    /\ pk.at = "staging"
    /\ pk' = [pk EXCEPT !.at = "mapped", !.mapped = TRUE]
    /\ UNCHANGED <<avail, use, api_ok, pc, ctx, built, ctor, run>>

\* memset(dst_bias_ptr, 0, v_bias.nbytes())
Memset ==
    /\ pk.kind = "pack_biases"
    /\ pk.at = "mapped"
    /\ pk' = [pk EXCEPT !.at = "loop",
                        !.staging = [k \in 1 .. Len(pk.staging) |-> 0]]
    /\ UNCHANGED <<avail, use, api_ok, pc, ctx, built, ctor, run>>

\* one iteration of the loop nest: one memcpy of sizeof(float)
CopyElement ==
    /\ pk.kind = "pack_biases"
    /\ pk.at = "loop"
    /\ pk.bias_arg.kind = "tensor"
    /\ pk.n < iterations(pk.src, pk.use_batch)
    /\ LET i == loop_indices(pk.src, pk.use_batch, pk.n)
           dst == dst_offset(pk.src, i)
           src == src_offset(pk.src, pk.use_batch, i)
           value == IF src < numel(pk.bias_arg.sizes) THEN SourceElement(src)
                    ELSE OutOfBounds
       IN  pk' = [pk EXCEPT
                    !.n = pk.n + 1,
                    !.writes = Append(pk.writes,
                                      [src_b |-> i.src_b, src_h |-> i.src_h,
                                       src_w |-> i.src_w, src |-> src,
                                       dst |-> dst]),
                    !.staging = IF dst < Len(pk.staging)
                                THEN [pk.staging EXCEPT ![dst + 1] = value]
                                ELSE pk.staging]
    /\ UNCHANGED <<avail, use, api_ok, pc, ctx, built, ctor, run>>

\* the closing brace of the mapping's scope, reached when the loops are done
\* (at once in the zero-bias path, which has no loop)
UnmapStaging ==
    /\ pk.kind = "pack_biases"
    /\ pk.at = "loop"
    /\ pk.bias_arg.kind = "tensor" => pk.n = iterations(pk.src, pk.use_batch)
    /\ pk' = [pk EXCEPT !.at = "unmapped",
                        !.mapped = mapping_after_scope(pk.mapped)]
    /\ UNCHANGED <<avail, use, api_ok, pc, ctx, built, ctor, run>>

\* utils::pack_staging_to_vtensor(staging.buffer(), v_bias); return v_bias
UploadStaging ==
    /\ pk.kind = "pack_biases"
    /\ pk.at = "unmapped"
    /\ pk' = [pk EXCEPT !.at = "returned", !.uploaded = TRUE,
                        !.image = pk.staging]
    /\ UNCHANGED <<avail, use, api_ok, pc, ctx, built, ctor, run>>

NextPackBiases ==
    \/ StartPackBiases
    \/ MapStaging
    \/ Memset
    \/ CopyElement
    \/ UnmapStaging
    \/ UploadStaging

SpecPackBiases == InitPackBiases /\ [][NextPackBiases]_vars

(***************************************************************************)
(* Claims about the staged copy of pack_biases.                            *)
(***************************************************************************)
\* C12: in every staged copy (the tiled bias and the zero bias) the mapping
\* of the staging buffer is acquired, the buffer is fully written, and the
\* mapping is released before the upload of the buffer is issued; the upload
\* never starts while the mapping is held.
C12_UploadAfterMappingReleased ==
    pk.kind = "pack_biases" =>
        /\ pk.at = "unmapped" =>
              /\ ~pk.mapped
              /\ \A k \in 1 .. Len(pk.staging) : pk.staging[k] # Uninitialized
              /\ pk.bias_arg.kind = "tensor" =>
                    pk.n = iterations(pk.src, pk.use_batch)
        /\ pk.uploaded =>
              /\ ~pk.mapped
              /\ pk.image = pk.staging
              /\ \A k \in 1 .. Len(pk.image) : pk.image[k] # Uninitialized
        /\ pk.mapped => ~pk.uploaded
        /\ (pk.n > 0 /\ pk.at = "loop") => pk.mapped

\* a tiled bias that has been uploaded after its elements were copied
C12_Witness ==
    /\ pk.kind = "pack_biases"
    /\ pk.uploaded
    /\ pk.bias_arg.kind = "tensor"
    /\ Len(pk.writes) >= 4

\* the (batch, H, W) of a bias of rank 1, 2 or 3 in batched packing
BiasExtents(sizes) ==
    IF Len(sizes) = 3 THEN [B |-> sizes[1], H |-> sizes[2], W |-> sizes[3]]
    ELSE IF Len(sizes) = 2 THEN [B |-> 1, H |-> sizes[1], W |-> sizes[2]]
    ELSE [B |-> 1, H |-> 1, W |-> sizes[1]]

CeilHalf(x) == (x + 1) \div 2

\* the offset of channel c, plane position (y, x) of batch b in an image of
\* sizes (batch, 4, ceil(H/2), ceil(W/2))
TileOffset(e, b, c, y, x) ==
    ((b * 4 + c) * CeilHalf(e.H) + y) * CeilHalf(e.W) + x

\* the calls of pack_biases that run the tiled copy on a bias of rank 1 to 3
TiledBiasCall ==
    /\ pk.kind = "pack_biases"
    /\ pk.bias_arg.kind = "tensor"
    /\ pk.bias_arg.device # "vulkan"
    /\ pk.use_batch
    /\ ndimension(pk.bias_arg) \in 1 .. 3

\* whether pack_weights stages the weight (quantized or batched)
StagedWeight(weight_arg, use_batch) ==
    use_batch \/ weight_arg.dtype \in QuantizedDTypes

\* C13: a staged packing of a source with H >= 1 rows and W >= 1 columns
\* has a destination of sizes (batch, 4, ceil(H/2), ceil(W/2)); the tiled
\* bias copy writes source element (h, w) of batch b to channel
\* 2*(h mod 2) + (w mod 2), plane position (h div 2, w div 2) of batch b; and
\* every destination position no copy writes is zero.
C13_TiledPacking ==
    /\ ( /\ pk.kind = "pack_biases"
         /\ StagedWeight(pk.weight_arg, pk.use_batch) ) =>
           LET w == pk.weight_arg.sizes
               e == IF pk.use_batch THEN [B |-> w[1], H |-> w[2], W |-> w[3]]
                                    ELSE [B |-> 1, H |-> w[1], W |-> w[2]]
           IN  pack_weights(pk.weight_arg, pk.use_batch, TRUE).v.sizes
                 = <<e.B, 4, CeilHalf(e.H), CeilHalf(e.W)>>
    /\ ( /\ TiledBiasCall
         /\ \A k \in 1 .. Len(pk.bias_arg.sizes) : pk.bias_arg.sizes[k] >= 1 ) =>
           LET e == BiasExtents(pk.bias_arg.sizes)
           IN  /\ pk.v_bias.sizes = <<e.B, 4, CeilHalf(e.H), CeilHalf(e.W)>>
               /\ Len(pk.staging) = e.B * 4 * CeilHalf(e.H) * CeilHalf(e.W)
               /\ pk.uploaded =>
                     /\ \A b \in 0 .. e.B - 1, h \in 0 .. e.H - 1,
                           x \in 0 .. e.W - 1 :
                           pk.image[TileOffset(e, b, 2 * (h % 2) + (x % 2),
                                               h \div 2, x \div 2) + 1]
                             = SourceElement((b * e.H + h) * e.W + x)
                     /\ \A k \in 1 .. Len(pk.image) :
                           (\A j \in 1 .. Len(pk.writes) :
                               pk.writes[j].dst + 1 # k)
                             => pk.image[k] = 0

\* an uploaded tiled bias of 2 batches of 3 x 3, whose image has positions no
\* copy writes, packed beside a staged weight
C13_Witness ==
    /\ TiledBiasCall
    /\ pk.uploaded
    /\ pk.bias_arg.sizes = <<2, 3, 3>>
    /\ \E k \in 1 .. Len(pk.image) : pk.image[k] = 0
    /\ StagedWeight(pk.weight_arg, pk.use_batch)

\* the calls of pack_biases in batched mode on a bias of rank 1 to 3, every
\* size >= 1, that have returned the packed bias
BatchedBiasPacked ==
    /\ pk.kind = "pack_biases"
    /\ pk.at = "returned"
    /\ pk.use_batch
    /\ pk.bias_arg.kind = "tensor"
    /\ ndimension(pk.bias_arg) \in 1 .. 3
    /\ \A k \in 1 .. Len(pk.bias_arg.sizes) : pk.bias_arg.sizes[k] >= 1

\* the image holds, at the position of (b, h, x), the source element the
\* broadcast reads for it: row 0 when H = 1, column 0 when W = 1
BroadcastImage(image, e) ==
    \A b \in 0 .. e.B - 1,
       h \in 0 .. (IF e.H = 1 THEN 2 ELSE e.H) - 1,
       x \in 0 .. (IF e.W = 1 THEN 2 ELSE e.W) - 1 :
       image[TileOffset(e, b, 2 * (h % 2) + (x % 2), h \div 2, x \div 2) + 1]
         = SourceElement((b * e.H + (IF e.H = 1 THEN 0 ELSE h)) * e.W
                            + (IF e.W = 1 THEN 0 ELSE x))

\* C14: batched bias packing reads a bias of rank 1, 2 or 3 with broadcast
\* semantics: with height 1 the positions of h = 0 and h = 1 both receive the
\* single source row, with width 1 the positions of w = 0 and w = 1 both
\* receive the single source column; a rank-2 bias is batch 1, a rank-1 bias
\* batch 1 and height 1.  With no bias given the packed bias is one element
\* holding zero and the bias-defined flag is false.
C14_BiasBroadcast ==
    /\ BatchedBiasPacked =>
          LET e == BiasExtents(pk.bias_arg.sizes)
          IN  /\ pk.v_bias.sizes = <<e.B, 4, CeilHalf(e.H), CeilHalf(e.W)>>
              /\ pk.uploaded
              /\ Len(pk.image) = e.B * 4 * CeilHalf(e.H) * CeilHalf(e.W)
              /\ BroadcastImage(pk.image, e)
    /\ ( /\ pk.kind = "pack_biases"
         /\ pk.at = "returned"
         /\ pk.bias_arg = Nullopt ) =>
          /\ pk.v_bias.sizes = <<1>>
          /\ pk.image = <<0>>
          /\ ~packed_entries(pk.v_bias, pk.v_bias, pk.weight_arg,
                             pk.bias_arg)[Packed_BiasDefined + 1]

\* C15: for a bias available accepts in batched mode (rank 1 to 3, every size
\* >= 1) each copy of the tiled loop reads at a source offset below
\* batch*H*W and writes at a destination offset below
\* batch*4*ceil(H/2)*ceil(W/2), the broadcast iterations included, and no two
\* iterations write the same destination offset.
C15_CopyOffsetsInBounds ==
    ( /\ TiledBiasCall
      /\ \A k \in 1 .. Len(pk.bias_arg.sizes) : pk.bias_arg.sizes[k] >= 1 ) =>
        LET e == BiasExtents(pk.bias_arg.sizes)
        IN  /\ \A j \in 1 .. Len(pk.writes) :
                  /\ pk.writes[j].src >= 0
                  /\ pk.writes[j].src < e.B * e.H * e.W
                  /\ pk.writes[j].dst >= 0
                  /\ pk.writes[j].dst
                        < e.B * 4 * CeilHalf(e.H) * CeilHalf(e.W)
            /\ \A j, k \in 1 .. Len(pk.writes) :
                  j # k =>
                     /\ pk.writes[j].dst # pk.writes[k].dst
                     /\ <<pk.writes[j].src_b, pk.writes[j].src_h,
                          pk.writes[j].src_w>>
                          # <<pk.writes[k].src_b, pk.writes[k].src_h,
                              pk.writes[k].src_w>>

\* a bias of 2 batches of 1 x 1, all of whose 8 copies, broadcast in h and in
\* w, have been made
C15_Witness ==
    /\ TiledBiasCall
    /\ pk.bias_arg.sizes = <<2, 1, 1>>
    /\ Len(pk.writes) = 8

(***************************************************************************)
(* Claims about the quantized flag of an invocation.                       *)
(***************************************************************************)
QuantizedKernels ==
    {"quantized_mm_qint8", "quantized_mm_quint8", "quantized_addmm_qint8",
     "quantized_addmm_quint8"}

FloatKernels == {"mm", "addmm"}

\* C16: an unbatched invocation reaches submission with the quantized flag set
\* only if the context's packed weight and the packed input are both
\* quantized, and with the flag clear only if the packed weight is tagged
\* HEIGHT_PACKED; so a context built from a quantized weight is never
\* dispatched to a float kernel and a context built from a float weight never
\* to a quantized kernel.
C16_QuantizedFlagGuarded ==
    ( /\ run.kind = "run"
      /\ ~run.use_batch
      /\ run.jobs # <<>> ) =>
        LET packed_v_weight == get_val(ctx, Packed_Weight)
        IN  /\ run.quantized => (packed_v_weight.vq /\ run.v_input.vq)
            /\ ~run.quantized =>
                  packed_v_weight.layout = "TENSOR_HEIGHT_PACKED"
            /\ \A i \in 1 .. Len(run.jobs) :
                  /\ packed_v_weight.dtype \in QuantizedDTypes =>
                        run.jobs[i].shader \in QuantizedKernels
                  /\ packed_v_weight.dtype = "kFloat" =>
                        run.jobs[i].shader \in FloatKernels

====
